---- MODULE Spec2Model ----
(***************************************************************************)
(* Steady-state residual functors SS_system_dd and SS_system_vd           *)
(* (src/PKModel/functors/SS_system.hpp).                                   *)
(*                                                                         *)
(* One functor object is constructed (Init) and its operator() is then     *)
(* evaluated any number of times.  An evaluation is modelled in steps:     *)
(* entry (the declarations before the if), then the branch taken, one      *)
(* step per collaborator call.                                             *)
(*                                                                         *)
(* Numbers.  Arguments (x, y, dat, ii_) are integers.  The quotient        *)
(* amt / rate and the spans derived from it are exact rationals <<n, d>>   *)
(* in lowest terms with d > 0; rounding, infinities and NaN of the double  *)
(* type are outside the model.                                             *)
(*                                                                         *)
(* Collaborators.  The integrator and the right-hand side are opaque: a    *)
(* call returns a vector of terms that record the call's arguments, and    *)
(* x(i) - pred[i] is the term "sub".  Every call is appended to `calls`.   *)
(***************************************************************************)
EXTENDS Integers, Naturals, Sequences, FiniteSets, TLC

\* ------------------------------------------------------------- bounds
NCmt == 2       \* number of compartments, x.size()
MaxX == 1       \* candidate state entries range over MaxX + 1 base values
MaxRate == 2    \* rates range over -MaxRate .. MaxRate
MaxAmt == 2     \* amounts range over -MaxAmt .. MaxAmt
MaxII == 2      \* the interdose interval ranges over -1 .. MaxII

VARIABLES
  variant,      \* "dd" (SS_system_dd) or "vd" (SS_system_vd)
  f_, ii_, cmt_, integrator_,     \* the members of the functor
  x, y, dat, dat_int,             \* the arguments of the evaluation
  ts, rate_v, x0, amt, rate, result, parms, delta,   \* its locals
  pc,           \* position of the evaluation
  branch,       \* the branch of the if the evaluation took, "none" before
  calls,        \* collaborator calls of the evaluation, in order
  prior         \* <<outcome>> of the previous evaluation when this one
                \* repeats its arguments, <<>> otherwise

vars == <<variant, f_, ii_, cmt_, integrator_, x, y, dat, dat_int,
          ts, rate_v, x0, amt, rate, result, parms, delta, pc, branch, calls, prior>>

fields == <<variant, f_, ii_, cmt_, integrator_>>
args == <<x, y, dat, dat_int>>
locals == <<ts, rate_v, x0, amt, rate, result, parms, delta>>

\* ---------------------------------------------------- exact rationals
RECURSIVE Gcd(_, _)
Gcd(a, b) == IF b = 0 THEN a ELSE Gcd(b, a % b)

Abs(n) == IF n < 0 THEN -n ELSE n

Sign(n) == IF n < 0 THEN -1 ELSE 1

\* n / d for d # 0, in lowest terms with a positive denominator
Quot(n, d) ==
  LET g == Gcd(Abs(n), Abs(d))
  IN  <<(Sign(d) * n) \div g, Abs(d) \div g>>

FromInt(n) == <<n, 1>>

RatGt(p, q) == p[1] * q[2] > q[1] * p[2]

RatMinus(p, q) == Quot(p[1] * q[2] - q[1] * p[2], p[2] * q[2])

RatPlus(p, q) == Quot(p[1] * q[2] + q[1] * p[2], p[2] * q[2])

\* double t0 = 0;
t0 == FromInt(0)

\* --------------------------------------------------------- collaborators
\* The functors F the template may be instantiated with: one returns a
\* derivative per entry of the state it is given, one returns one entry more.
Functors == {"perState", "augmented"}

OutLen(f, n) == IF f = "augmented" THEN n + 1 ELSE n

Integrators == {"rk45", "bdf"}

\* f_(t, x, parms, rate, dat_int, msgs): the record of the call
RhsCall(f, t, xs, ps, rs, is) ==
  [kind |-> "rhs", by |-> "none", f |-> f, x0 |-> xs, t0 |-> t, ts |-> <<>>,
   parms |-> ps, rate |-> rs, idata |-> is]

\* the vector the call returns
RhsValue(c) == [i \in 1..OutLen(c.f, Len(c.x0)) |-> [op |-> "rhs", of |-> c, i |-> i]]

\* integrator_(f, x0, t0, ts, parms, rate, dat_int): the record of the call
IntegratorCall(g, f, xs, t, tt, ps, rs, is) ==
  [kind |-> "integrator", by |-> g, f |-> f, x0 |-> xs, t0 |-> t, ts |-> tt,
   parms |-> ps, rate |-> rs, idata |-> is]

\* the states the call returns, one per requested time, each of the length
\* of the initial state
IntegratorValue(c) ==
  [k \in 1..Len(c.ts) |->
     [i \in 1..Len(c.x0) |-> [op |-> "ode", of |-> c, k |-> k, i |-> i]]]

NIntegrator == Cardinality({k \in 1..Len(calls) : calls[k].kind = "integrator"})

NRhs == Cardinality({k \in 1..Len(calls) : calls[k].kind = "rhs"})

\* ------------------------------------------------------------- helpers
\* stan::math::to_array_1d / to_vector: same entries, same order
to_array_1d(v) == [i \in 1..Len(v) |-> v[i]]

to_vector(v) == [i \in 1..Len(v) |-> v[i]]

\* Eigen::Matrix<scalar, Dynamic, 1> result(x.size()): entries not set
Unset(n) == [i \in 1..n |-> [op |-> "unset"]]

\* for (i < result.size()) result(i) = x(i) - pred[i];
Residual(res, xs, pred) ==
  [i \in 1..Len(res) |->
     [op |-> "sub", a |-> xs[i],
      b |-> IF i \in 1..Len(pred) THEN pred[i] ELSE [op |-> "unset"]]]

Outcome ==
  [thrown |-> (pc = "thrown"),
   value |-> IF pc = "returned" THEN result ELSE <<>>]

Completed == pc \in {"returned", "thrown"}

\* ------------------------------------------------------------- inputs
RateVals == (0 - MaxRate)..MaxRate
AmtVals == (0 - MaxAmt)..MaxAmt
IIVals == (0 - 1)..MaxII

\* candidate states: entries differ between compartments
XSet == {[i \in 1..NCmt |-> v + 2 * i] : v \in 0..MaxX}

\* per-compartment rates: one compartment infused at rate r
RateSet == {[i \in 1..NCmt |-> IF i = k THEN r ELSE 0] : k \in 1..NCmt, r \in RateVals}

\* model parameters
ParmSet == {<<3, 5>>}

IDataSet == {<<>>, <<7>>}

Dat_dd == {Append(r, a) : r \in RateSet, a \in AmtVals}
Y_dd == ParmSet
Dat_vd == RateSet
Y_vd == {Append(p, a) : p \in ParmSet, a \in AmtVals}

\* ---------------------------------------------------------------- Init
\* SS_system_dd(f, ii, cmt, integrator) / SS_system_vd(f, ii, cmt, integrator)
Init ==
  /\ variant \in {"dd", "vd"}
  /\ f_ \in Functors
  /\ ii_ \in IIVals
  /\ cmt_ \in 1..NCmt
  /\ integrator_ \in Integrators
  /\ x = <<>> /\ y = <<>> /\ dat = <<>> /\ dat_int = <<>>
  /\ ts = <<>> /\ rate_v = <<>> /\ x0 = <<>> /\ amt = 0 /\ rate = 0
  /\ result = <<>> /\ parms = <<>> /\ delta = <<>>
  /\ pc = "idle"
  /\ branch = "none"
  /\ calls = <<>>
  /\ prior = <<>>


\* ------------------------------------------------ SS_system_dd::operator()
\* 0-based element access v[i] of std::vector / Eigen
At0(v, i) == v[i + 1]

\* variation: the trailing amount is kept among the rates
RateV_dd_keepsAmount(d) == [i \in 1..Len(d) |-> d[i]]

\* vector<double> rate_v(dat.size() - 1, 0); rate_v[i] = dat[i];
RateV_dd(d) == [i \in 1..(Len(d) - 1) |-> At0(d, i - 1)]

\* double amt = dat[dat.size() - 1];
Amt_dd(d) == At0(d, Len(d) - 1)

\* double rate = dat[cmt_ - 1];
Rate_dd(d, cmt) == At0(d, cmt - 1)

\* if (rate == 0) ... else if (ii_ > 0) ... else ...
Branch_dd(r, ii) ==
  IF r = 0 THEN "bolus" ELSE IF ii > 0 THEN "truncated" ELSE "constant"

\* x0[cmt_ - 1] += amt;
AddDose_dd(v, cmt, a) == [v EXCEPT ![cmt - 1 + 1] = @ + a]

\* variation: delta >= ii_ is rejected too
Infeasible_dd_orEqual(dl, ii) == ~RatGt(FromInt(ii), dl)

\* if (delta > ii_) invalid_argument(...)
Infeasible_dd(dl, ii) == RatGt(dl, FromInt(ii))

\* variation: the second integration keeps the rates of dat
ZeroRates_dd_keepsRates(d) == [i \in 1..Len(d) |-> d[i]]

\* vector<double> rate_v(dat.size(), 0);
ZeroRates_dd(d) == [i \in 1..Len(d) |-> 0]

\* ts[0] = ii_ - delta;
OffSpan_dd(ii, dl) == RatMinus(FromInt(ii), dl)

\* the declarations before the branch
Enter_dd ==
  /\ variant = "dd"
  /\ pc \in {"idle", "returned", "thrown"}
  /\ \E xx \in XSet, yy \in Y_dd, dd \in Dat_dd, di \in IDataSet :
       /\ Completed => <<xx, yy, dd, di>> = args
       /\ x' = xx /\ y' = yy /\ dat' = dd /\ dat_int' = di
       /\ prior' = IF Completed THEN <<Outcome>> ELSE <<>>
       /\ ts' = <<FromInt(0)>>
       /\ rate_v' = RateV_dd(dd)
       /\ x0' = [i \in 1..Len(xx) |-> xx[i]]
       /\ amt' = Amt_dd(dd)
       /\ rate' = Rate_dd(dd, cmt_)
       /\ result' = Unset(Len(xx))
  /\ parms' = <<>>
  /\ delta' = <<>>
  /\ calls' = <<>>
  /\ pc' = "entered"
  /\ branch' = "none"
  /\ UNCHANGED fields

\* variation: the dose is added to the argument x itself
BolusDose_dd_inPlace ==
  /\ variant = "dd" /\ pc = "entered"
  /\ Branch_dd(rate, ii_) = "bolus"
  /\ branch' = "bolus"
  /\ x' = AddDose_dd(x, cmt_, amt)
  /\ x0' = x'
  /\ ts' = [ts EXCEPT ![1] = FromInt(ii_)]
  /\ LET c == IntegratorCall(integrator_, f_, x0', t0, ts', to_array_1d(y),
                             dat, dat_int)
         pred == At0(IntegratorValue(c), 0)
     IN  /\ calls' = Append(calls, c)
         /\ result' = Residual(result, x', pred)
  /\ pc' = "returned"
  /\ UNCHANGED <<fields, y, dat, dat_int, rate_v, amt, rate, parms, delta, prior>>

\* if (rate == 0): bolus dose
BolusDose_dd ==
  /\ variant = "dd" /\ pc = "entered"
  /\ Branch_dd(rate, ii_) = "bolus"
  /\ branch' = "bolus"
  /\ x0' = AddDose_dd(x0, cmt_, amt)
  /\ ts' = [ts EXCEPT ![1] = FromInt(ii_)]
  /\ LET c == IntegratorCall(integrator_, f_, x0', t0, ts', to_array_1d(y),
                             dat, dat_int)
         pred == At0(IntegratorValue(c), 0)
     IN  /\ calls' = Append(calls, c)
         /\ result' = Residual(result, x, pred)
  /\ pc' = "returned"
  /\ UNCHANGED <<fields, args, rate_v, amt, rate, parms, delta, prior>>

\* else if (ii_ > 0): delta = amt / rate and the check of delta
TruncatedInfusion_dd ==
  /\ variant = "dd" /\ pc = "entered"
  /\ Branch_dd(rate, ii_) = "truncated"
  /\ branch' = "truncated"
  /\ delta' = Quot(amt, rate)
  /\ pc' = IF Infeasible_dd(delta', ii_) THEN "thrown" ELSE "infuse_on"
  /\ UNCHANGED <<fields, args, ts, rate_v, x0, amt, rate, result, parms,
                 calls, prior>>

\* ts[0] = delta; x0 = integrator_(f_, to_array_1d(x), t0, ts, ..., dat, ...)[0];
InfuseOn_dd ==
  /\ variant = "dd" /\ pc = "infuse_on"
  /\ ts' = [ts EXCEPT ![1] = delta]
  /\ LET c == IntegratorCall(integrator_, f_, to_array_1d(x), t0, ts',
                             to_array_1d(y), dat, dat_int)
     IN  /\ calls' = Append(calls, c)
         /\ x0' = At0(IntegratorValue(c), 0)
  /\ pc' = "infuse_off"
  /\ UNCHANGED <<fields, args, branch, rate_v, amt, rate, result, parms, delta, prior>>

\* variation: no second integration when its span is zero
InfuseOff_dd_skipsEmptySpan ==
  /\ variant = "dd" /\ pc = "infuse_off"
  /\ ts' = [ts EXCEPT ![1] = OffSpan_dd(ii_, delta)]
  /\ rate_v' = ZeroRates_dd(dat)
  /\ IF ts'[1][1] = 0
     THEN /\ calls' = calls
          /\ result' = Residual(result, x, x0)
     ELSE LET c == IntegratorCall(integrator_, f_, x0, t0, ts', to_array_1d(y),
                                  rate_v', dat_int)
              pred == At0(IntegratorValue(c), 0)
          IN  /\ calls' = Append(calls, c)
              /\ result' = Residual(result, x, pred)
  /\ pc' = "returned"
  /\ UNCHANGED <<fields, args, branch, x0, amt, rate, parms, delta, prior>>

\* ts[0] = ii_ - delta; pred = integrator_(f_, x0, t0, ts, ..., rate_v, ...)[0];
\* result(i) = x(i) - pred[i].  The zero rate_v is the inner declaration that
\* shadows the outer one.
InfuseOff_dd ==
  /\ variant = "dd" /\ pc = "infuse_off"
  /\ ts' = [ts EXCEPT ![1] = OffSpan_dd(ii_, delta)]
  /\ rate_v' = ZeroRates_dd(dat)
  /\ LET c == IntegratorCall(integrator_, f_, x0, t0, ts', to_array_1d(y),
                             rate_v', dat_int)
         pred == At0(IntegratorValue(c), 0)
     IN  /\ calls' = Append(calls, c)
         /\ result' = Residual(result, x, pred)
  /\ pc' = "returned"
  /\ UNCHANGED <<fields, args, branch, x0, amt, rate, parms, delta, prior>>

\* else: constant infusion
ConstantInfusion_dd ==
  /\ variant = "dd" /\ pc = "entered"
  /\ Branch_dd(rate, ii_) = "constant"
  /\ branch' = "constant"
  /\ LET c == RhsCall(f_, FromInt(0), to_array_1d(x), to_array_1d(y),
                      rate_v, dat_int)
     IN  /\ calls' = Append(calls, c)
         /\ result' = to_vector(RhsValue(c))
  /\ pc' = "returned"
  /\ UNCHANGED <<fields, args, ts, rate_v, x0, amt, rate, parms, delta, prior>>

\* ------------------------------------------------ SS_system_vd::operator()
\* vector<double> rate_v(dat.size(), 0); rate_v[i] = dat[i];
RateV_vd(d) == [i \in 1..Len(d) |-> At0(d, i - 1)]

\* scalar amt = y(y.size() - 1);
Amt_vd(yy) == At0(yy, Len(yy) - 1)

\* double rate = dat[cmt_ - 1];
Rate_vd(d, cmt) == At0(d, cmt - 1)

\* std::vector<scalar> parms(y.size() - 1); parms[i] = y(i);
Parms_vd(yy) == [i \in 1..(Len(yy) - 1) |-> At0(yy, i - 1)]

\* variation: ii_ >= 0 in place of ii_ > 0
Branch_vd_orEqual(r, ii) ==
  IF r = 0 THEN "bolus" ELSE IF ii >= 0 THEN "truncated" ELSE "constant"

\* if (rate == 0) ... else if (ii_ > 0) ... else ...
Branch_vd(r, ii) ==
  IF r = 0 THEN "bolus" ELSE IF ii > 0 THEN "truncated" ELSE "constant"

\* variation: = in place of +=
AddDose_vd_assigns(v, cmt, a) == [v EXCEPT ![cmt - 1 + 1] = a]

\* x0[cmt_ - 1] += amt;
AddDose_vd(v, cmt, a) == [v EXCEPT ![cmt - 1 + 1] = @ + a]

\* the declarations before the branch
Enter_vd ==
  /\ variant = "vd"
  /\ pc \in {"idle", "returned", "thrown"}
  /\ \E xx \in XSet, yy \in Y_vd, dd \in Dat_vd, di \in IDataSet :
       /\ Completed => <<xx, yy, dd, di>> = args
       /\ x' = xx /\ y' = yy /\ dat' = dd /\ dat_int' = di
       /\ prior' = IF Completed THEN <<Outcome>> ELSE <<>>
       /\ ts' = <<FromInt(0)>>
       /\ rate_v' = RateV_vd(dd)
       /\ x0' = [i \in 1..Len(xx) |-> xx[i]]
       /\ amt' = Amt_vd(yy)
       /\ rate' = Rate_vd(dd, cmt_)
       /\ result' = Unset(Len(xx))
       /\ parms' = Parms_vd(yy)
  /\ delta' = <<>>
  /\ calls' = <<>>
  /\ pc' = "entered"
  /\ branch' = "none"
  /\ UNCHANGED fields

\* if (rate == 0): bolus dose
BolusDose_vd ==
  /\ variant = "vd" /\ pc = "entered"
  /\ Branch_vd(rate, ii_) = "bolus"
  /\ branch' = "bolus"
  /\ x0' = AddDose_vd(x0, cmt_, amt)
  /\ ts' = [ts EXCEPT ![1] = FromInt(ii_)]
  /\ LET c == IntegratorCall(integrator_, f_, x0', t0, ts', parms, dat, dat_int)
         pred == At0(IntegratorValue(c), 0)
     IN  /\ calls' = Append(calls, c)
         /\ result' = Residual(result, x, pred)
  /\ pc' = "returned"
  /\ UNCHANGED <<fields, args, rate_v, amt, rate, parms, delta, prior>>

\* variation: only an infusion longer than ii_ is rejected, as in SS_system_dd
TruncatedInfusion_vd_conditional ==
  /\ variant = "vd" /\ pc = "entered"
  /\ Branch_vd(rate, ii_) = "truncated"
  /\ branch' = "truncated"
  /\ pc' = IF RatGt(Quot(amt, rate), FromInt(ii_)) THEN "thrown" ELSE "returned"
  /\ UNCHANGED <<fields, args, locals, calls, prior>>

\* else if (ii_ > 0): invalid_argument(...), always
TruncatedInfusion_vd ==
  /\ variant = "vd" /\ pc = "entered"
  /\ Branch_vd(rate, ii_) = "truncated"
  /\ branch' = "truncated"
  /\ pc' = "thrown"
  /\ UNCHANGED <<fields, args, locals, calls, prior>>

\* else: constant infusion
ConstantInfusion_vd ==
  /\ variant = "vd" /\ pc = "entered"
  /\ Branch_vd(rate, ii_) = "constant"
  /\ branch' = "constant"
  /\ LET c == RhsCall(f_, FromInt(0), to_array_1d(x), parms, dat, dat_int)
     IN  /\ calls' = Append(calls, c)
         /\ result' = to_vector(RhsValue(c))
  /\ pc' = "returned"
  /\ UNCHANGED <<fields, args, ts, rate_v, x0, amt, rate, parms, delta, prior>>

\* ------------------------------------------------------------ the caller
\* The caller is done with the outcome and with these argument objects; the
\* evaluation's locals went out of scope at its return or throw.  Its next
\* evaluation is of other arguments.  (Enter_dd / Enter_vd in a completed
\* state is the caller evaluating the same arguments again.)
Release ==
  /\ Completed
  /\ x' = <<>> /\ y' = <<>> /\ dat' = <<>> /\ dat_int' = <<>>
  /\ ts' = <<>> /\ rate_v' = <<>> /\ x0' = <<>> /\ amt' = 0 /\ rate' = 0
  /\ result' = <<>> /\ parms' = <<>> /\ delta' = <<>>
  /\ pc' = "idle"
  /\ branch' = "none"
  /\ calls' = <<>>
  /\ prior' = <<>>
  /\ UNCHANGED fields

\* ------------------------------------------------------------ behaviour
Next ==
  \/ Release
  \/ Enter_dd
  \/ BolusDose_dd
  \/ TruncatedInfusion_dd
  \/ InfuseOn_dd
  \/ InfuseOff_dd
  \/ ConstantInfusion_dd
  \/ Enter_vd
  \/ BolusDose_vd
  \/ TruncatedInfusion_vd
  \/ ConstantInfusion_vd

Spec == Init /\ [][Next]_vars


\* =============================================================== claims
\* The quantities the claims speak of, read from the arguments.
RateAtCmt == dat[cmt_]
DoseAmount == IF variant = "dd" THEN dat[Len(dat)] ELSE y[Len(y)]
ModelParms == IF variant = "dd" THEN y ELSE SubSeq(y, 1, Len(y) - 1)
RateVector == IF variant = "dd" THEN SubSeq(dat, 1, Len(dat) - 1) ELSE dat
Dispatched == pc \notin {"idle", "entered"}
IsBolus == Dispatched /\ RateAtCmt = 0
IsTruncated == Dispatched /\ RateAtCmt # 0 /\ ii_ > 0
IsContinuous == Dispatched /\ RateAtCmt # 0 /\ ii_ <= 0

\* amt / rate > ii, without the quotient
DurationExceeds ==
  \/ RateAtCmt > 0 /\ DoseAmount > ii_ * RateAtCmt
  \/ RateAtCmt < 0 /\ DoseAmount < ii_ * RateAtCmt

\* x(i) - p[i] for every i of x
Minus(xs, p) == [i \in 1..Len(xs) |-> [op |-> "sub", a |-> xs[i], b |-> p[i]]]

\* C1: in both variants exactly one branch is taken: rate == 0 takes the bolus
\* branch whatever ii is, rate != 0 and ii > 0 the truncated-infusion branch,
\* rate != 0 and ii <= 0 (ii == 0 included) the continuous-infusion branch.
C1_RegimeDispatch ==
  /\ Dispatched =>
       /\ RateAtCmt = 0 => branch = "bolus"
       /\ RateAtCmt # 0 /\ ii_ > 0 => branch = "truncated"
       /\ RateAtCmt # 0 /\ ii_ <= 0 => branch = "constant"
  /\ pc = "entered" =>
       LET b == ENABLED (BolusDose_dd \/ BolusDose_vd)
           t == ENABLED (TruncatedInfusion_dd \/ TruncatedInfusion_vd)
           c == ENABLED (ConstantInfusion_dd \/ ConstantInfusion_vd)
       IN  \/ b /\ ~t /\ ~c
           \/ ~b /\ t /\ ~c
           \/ ~b /\ ~t /\ c

C1_Witness ==
  /\ Dispatched /\ variant = "vd" /\ RateAtCmt # 0 /\ ii_ = 0
  /\ branch = "constant"

\* C2: in SS_system_dd's truncated-infusion branch the evaluation throws
\* exactly when amt / rate > ii; a throwing evaluation has called no
\* collaborator and set no entry of the result; delta == ii does not throw.
C2_InfeasibleIffDurationExceeds ==
  (variant = "dd" /\ IsTruncated) =>
    /\ delta[1] * RateAtCmt = DoseAmount * delta[2]
    /\ (pc = "thrown") <=> DurationExceeds
    /\ pc = "thrown" => calls = <<>> /\ result = Unset(Len(x))
    /\ DoseAmount = ii_ * RateAtCmt => pc # "thrown"

C2_Witness ==
  /\ variant = "dd" /\ IsTruncated /\ pc = "thrown"
  /\ DoseAmount = 2 /\ RateAtCmt = 1 /\ ii_ = 1

\* C3: in SS_system_vd every evaluation with rate != 0 and ii > 0 throws,
\* whatever amt, rate and ii are, and has called neither the integrator nor
\* the right-hand side and set no entry of the result.
C3_VdTruncatedAlwaysFails ==
  (variant = "vd" /\ IsTruncated) =>
    /\ pc = "thrown"
    /\ NIntegrator = 0 /\ NRhs = 0
    /\ result = Unset(Len(x))

C3_Witness ==
  /\ variant = "vd" /\ IsTruncated /\ pc = "thrown"
  /\ DoseAmount = 1 /\ RateAtCmt = 2 /\ ii_ = 2

\* C4: in SS_system_dd's truncated-infusion branch with delta = amt / rate
\* <= ii the integrator is called exactly twice: first from 0 over delta,
\* starting at x, with dat; then from 0 over ii - delta, starting at the state
\* the first call returned, with all rates zero; result(i) = x(i) - pred[i]
\* with pred the state the second call returned.
C4_First ==
  IntegratorCall(integrator_, f_, x, <<0, 1>>,
                 <<Quot(DoseAmount, RateAtCmt)>>, y, dat, dat_int)

C4_Second ==
  IntegratorCall(integrator_, f_, IntegratorValue(C4_First)[1], <<0, 1>>,
                 <<RatMinus(<<ii_, 1>>, Quot(DoseAmount, RateAtCmt))>>, y,
                 [i \in 1..Len(dat) |-> 0], dat_int)

C4_TwoIntegrations ==
  (variant = "dd" /\ IsTruncated /\ ~DurationExceeds) =>
    /\ pc \in {"infuse_on", "infuse_off", "returned"}
    /\ pc = "infuse_on" => calls = <<>>
    /\ pc = "infuse_off" => calls = <<C4_First>>
    /\ pc = "returned" =>
         /\ calls = <<C4_First, C4_Second>>
         /\ \A i \in 1..Len(calls[2].rate) : calls[2].rate[i] = 0
         /\ result = Minus(x, IntegratorValue(C4_Second)[1])

C4_Witness ==
  /\ variant = "dd" /\ IsTruncated /\ pc = "returned"
  /\ DoseAmount = 1 /\ RateAtCmt = 2 /\ ii_ = 2
  /\ Len(calls) = 2
  /\ calls[1].ts = << <<1, 2>> >> /\ calls[2].ts = << <<3, 2>> >>

\* C5: a returned residual has the length of the candidate state x, in every
\* branch of both variants.
C5_ResidualLength ==
  pc = "returned" => Len(result) = Len(x)

\* C6: in the continuous-infusion branch of both variants the result is the
\* right-hand side evaluated once, at time 0, at x, with the model parameters
\* and the per-compartment rates, and the integrator is not called.
C6_Rhs == RhsCall(f_, <<0, 1>>, x, ModelParms, RateVector, dat_int)

C6_ContinuousIsRhs ==
  IsContinuous =>
    /\ pc = "returned"
    /\ calls = <<C6_Rhs>>
    /\ NIntegrator = 0 /\ NRhs = 1
    /\ result = RhsValue(C6_Rhs)

C6_Witness ==
  /\ IsContinuous /\ variant = "dd" /\ pc = "returned" /\ ii_ = 0
  /\ DoseAmount # 0

\* C7: in the bolus branch of both variants the integrator is called exactly
\* once, from 0 over the single span ii, starting at x with only entry cmt
\* raised by the dose amount, with the model parameters; result(i) = x(i) -
\* pred[i] with the x of the caller.
C7_Start == [i \in 1..Len(x) |-> IF i = cmt_ THEN x[i] + DoseAmount ELSE x[i]]

C7_Call ==
  IntegratorCall(integrator_, f_, C7_Start, <<0, 1>>, << <<ii_, 1>> >>,
                 ModelParms, dat, dat_int)

C7_BolusOneIntegration ==
  IsBolus =>
    /\ pc = "returned"
    /\ calls = <<C7_Call>>
    /\ NIntegrator = 1 /\ NRhs = 0
    /\ result = Minus(x, IntegratorValue(C7_Call)[1])

C7_Witness ==
  /\ IsBolus /\ variant = "vd" /\ pc = "returned" /\ DoseAmount = 2
  /\ calls[1].x0[cmt_] = x[cmt_] + 2

\* C8 as stated: a completed evaluation has called the integrator zero or
\* exactly two times.
C8_ZeroOrTwo ==
  Completed => NIntegrator \in {0, 2}

\* C8 as amended: a completed evaluation has called the integrator once in
\* the bolus branch, twice in a truncated infusion that returned, and not at
\* all in a continuous infusion or when it threw.
C8_ZeroOneOrTwo ==
  /\ NIntegrator \in {0, 1, 2}
  /\ Completed =>
       /\ IsBolus => NIntegrator = 1
       /\ IsTruncated /\ pc = "returned" => NIntegrator = 2
       /\ IsContinuous => NIntegrator = 0
       /\ pc = "thrown" => NIntegrator = 0

C8_Witness ==
  /\ Completed /\ IsBolus /\ pc = "returned" /\ NIntegrator = 1

\* C9: no step of an evaluation, failing ones included, changes a member of
\* the functor or an argument of the caller, and an evaluation of the same
\* arguments again ends as the one before it did.
C9_FrameStep ==
  /\ fields' = fields
  /\ (pc # "idle" /\ pc' # "idle") => args' = args

C9_Repeatable ==
  (Completed /\ prior # <<>>) => prior = <<Outcome>>

C10_InInterval(sp) == sp[1] >= 0 /\ sp[1] <= ii_ * sp[2]

C10_SpansSplitInterval ==
  (variant = "dd" /\ IsTruncated /\ pc = "returned") =>
    /\ Len(calls) = 2
    /\ C10_InInterval(calls[1].ts[1])
    /\ C10_InInterval(calls[2].ts[1])
    /\ RatPlus(calls[1].ts[1], calls[2].ts[1]) = <<ii_, 1>>

====
